---- MODULE Spec2Model ----
(***************************************************************************)
(* Model of the yeelight-pro converter subsystem                           *)
(* (custom_components/yeelight_pro/core/converters/base.py) and of the     *)
(* cover entity's command handlers (custom_components/yeelight_pro/        *)
(* cover.py).                                                              *)
(*                                                                         *)
(* Converters are pure transforms that mutate a caller-owned payload.      *)
(* Spec applies every modelled decode/encode to inputs drawn from bounded  *)
(* sets; CoverSpec runs the cover entity's command handlers and logs the   *)
(* payloads handed to device_send_props.                                   *)
(***************************************************************************)
EXTENDS Integers, Sequences, FiniteSets, TLC

(***************************************************************************)
(* Python values.  A payload holds values of several Python types, so      *)
(* every value carries its type as a tag.                                  *)
(***************************************************************************)
NoneV == <<"none">>
IntV(n) == <<"int", n>>
StrV(s) == <<"str", s>>
BoolV(b) == <<"bool", b>>
TupleV(r, g, b) == <<"tuple", r, g, b>>
DictV(d) == <<"dict", d>>

IsInt(v) == v[1] = "int"
IsStr(v) == v[1] = "str"

\* Python truthiness of a tagged value (`prop or attr`, `if typ:`).
Truthy(v) ==
    CASE v[1] = "none" -> FALSE
      [] v[1] = "int" -> v[2] # 0
      [] v[1] = "str" -> v[2] # ""
      [] v[1] = "bool" -> v[2]
      [] OTHER -> TRUE

\* A dict: a function from its keys to tagged values.
EmptyDict == [k \in {} |-> NoneV]

\* d[k] = v
Store(d, k, v) == [x \in DOMAIN d \cup {k} |-> IF x = k THEN v ELSE d[x]]

\* dict.get(k, default)
Get(d, k, default) == IF k \in DOMAIN d THEN d[k] ELSE default

\* d.update(other), also {**d, **other}: other's keys win.
Update(d, other) ==
    [x \in DOMAIN d \cup DOMAIN other |-> IF x \in DOMAIN other THEN other[x] ELSE d[x]]

(***************************************************************************)
(* Python float arithmetic: IEEE-754 binary64, round to nearest, ties to   *)
(* even.  A float is [neg, m, e] with value (-1)^neg * m * 2^e, where m is *)
(* a 53-bit significand written as a sequence of bits, most significant    *)
(* first (<<>> for zero).  The operands met in the converters are ratios   *)
(* of small integers, so neither overflow nor subnormals arise.            *)
(***************************************************************************)
Precision == 53

Abs(n) == IF n < 0 THEN -n ELSE n

Zeros(n) == [i \in 1..n |-> 0]

RECURSIVE NatBits(_)
\* binary digits of n >= 0, most significant first, no leading zero
NatBits(n) == IF n = 0 THEN <<>> ELSE Append(NatBits(n \div 2), n % 2)

RECURSIVE BitsNat(_)
\* the natural number a bit sequence writes
BitsNat(bits) ==
    IF bits = <<>> THEN 0
    ELSE 2 * BitsNat(SubSeq(bits, 1, Len(bits) - 1)) + bits[Len(bits)]

\* strip leading zeros
Strip(bits) ==
    LET ones == {i \in 1..Len(bits) : bits[i] = 1}
    IN  IF ones = {} THEN <<>>
        ELSE LET f == CHOOSE i \in ones : \A j \in ones : i <= j
             IN  SubSeq(bits, f, Len(bits))

\* pad on the left to length n
PadLeft(bits, n) == Zeros(n - Len(bits)) \o bits

\* In the three digit loops below the carry is never negative; testing it
\* first has it evaluated level by level rather than all at once at the end.
RECURSIVE MulCarry(_, _, _, _)
\* bits of bits[1..i] * c + carry
MulCarry(bits, c, i, carry) ==
    IF i = 0 \/ carry < 0 THEN NatBits(carry)
    ELSE LET t == bits[i] * c + carry
         IN  Append(MulCarry(bits, c, i - 1, t \div 2), t % 2)

RECURSIVE AddCarry(_, _, _, _)
\* bits of a[1..i] + b[1..i] + carry, a and b of one length
AddCarry(a, b, i, carry) ==
    IF i = 0 \/ carry < 0 THEN NatBits(carry)
    ELSE LET t == a[i] + b[i] + carry
         IN  Append(AddCarry(a, b, i - 1, t \div 2), t % 2)

RECURSIVE SubBorrow(_, _, _, _)
\* bits of a[1..i] - b[1..i] - borrow, a and b of one length, a >= b
SubBorrow(a, b, i, borrow) ==
    IF i = 0 \/ borrow < 0 THEN <<>>
    ELSE LET t == a[i] - b[i] - borrow
         IN  Append(SubBorrow(a, b, i - 1, IF t < 0 THEN 1 ELSE 0),
                    IF t < 0 THEN t + 2 ELSE t)

\* a < b for bit sequences of one length
BitsLess(a, b) ==
    \E i \in 1..Len(a) : a[i] < b[i] /\ \A j \in 1..(i - 1) : a[j] = b[j]

FloatZero == [neg |-> FALSE, m |-> <<>>, e |-> 0]

\* Round the exact value (-1)^neg * bits * 2^e to a float: keep 53 bits, ties
\* to even.
RoundToFloat(neg, bits0, e) ==
    LET bits == Strip(bits0)
        n == Len(bits)
    IN  IF n = 0 THEN FloatZero
        ELSE IF n <= Precision
        THEN [neg |-> neg, m |-> bits \o Zeros(Precision - n), e |-> e - (Precision - n)]
        ELSE LET top == SubSeq(bits, 1, Precision)
                 half == bits[Precision + 1] = 1
                 sticky == \E i \in (Precision + 2)..n : bits[i] = 1
                 up == half /\ (sticky \/ top[Precision] = 1)
                 inc == IF up THEN AddCarry(top, Zeros(Precision), Precision, 1) ELSE top
                 drop == n - Precision
             IN  IF Len(inc) > Precision
                 THEN [neg |-> neg, m |-> SubSeq(inc, 1, Precision), e |-> e + drop + 1]
                 ELSE [neg |-> neg, m |-> inc, e |-> e + drop]

\* float(n)
FromInt(n) == RoundToFloat(n < 0, NatBits(Abs(n)), 0)

RECURSIVE FracBits(_, _, _)
\* the next k binary digits of rem / b (0 <= rem < b) after the point
FracBits(rem, b, k) ==
    IF k = 0 THEN <<>>
    ELSE <<(2 * rem) \div b>> \o FracBits((2 * rem) % b, b, k - 1)

RECURSIVE FracRem(_, _, _)
\* the remainder left after those k digits
FracRem(rem, b, k) == IF k = 0 \/ rem = 0 THEN rem ELSE FracRem((2 * rem) % b, b, k - 1)

RECURSIVE LeadingZeros(_, _)
\* how many zero digits open the binary expansion of rem / b (0 < rem < b)
LeadingZeros(rem, b) == IF 2 * rem >= b THEN 0 ELSE 1 + LeadingZeros(2 * rem, b)

\* a / b for integers a and b # 0 (true division, correctly rounded)
DivInt(a, b) ==
    LET neg == (a < 0) # (b < 0)
        x == Abs(a)
        y == Abs(b)
        q == NatBits(x \div y)
        r == x % y
        k == IF q # <<>> THEN Precision + 2 - Len(q)
             ELSE IF r = 0 THEN 0 ELSE LeadingZeros(r, y) + Precision + 2
        tail == IF FracRem(r, y, k) # 0 THEN <<1>> ELSE <<0>>
    IN  IF x = 0 THEN FloatZero
        ELSE RoundToFloat(neg, q \o FracBits(r, y, k) \o tail, -(k + 1))

\* x * c for a float x and an integer c (c converts to float exactly)
MulInt(x, c) ==
    IF x.m = <<>> \/ c = 0 THEN FloatZero
    ELSE RoundToFloat(x.neg # (c < 0), MulCarry(x.m, Abs(c), Len(x.m), 0), x.e)

\* x + c for a float x and an integer c
AddInt(x, c) ==
    IF x.m = <<>> THEN FromInt(c)
    ELSE LET shift == IF x.e < 0 THEN -x.e ELSE 0
             xm == IF x.e > 0 THEN x.m \o Zeros(x.e) ELSE x.m
             cm == NatBits(Abs(c)) \o Zeros(shift)
             n == (IF Len(xm) > Len(cm) THEN Len(xm) ELSE Len(cm))
             a == PadLeft(xm, n)
             b == PadLeft(cm, n)
             cneg == c < 0
         IN  IF x.neg = cneg THEN RoundToFloat(x.neg, AddCarry(a, b, n, 0), -shift)
             ELSE IF BitsLess(a, b) THEN RoundToFloat(cneg, SubBorrow(b, a, n, 0), -shift)
             ELSE RoundToFloat(x.neg, SubBorrow(a, b, n, 0), -shift)

\* the bits of |x| before the binary point
IntPart(x) ==
    IF x.m = <<>> THEN <<>>
    ELSE IF x.e >= 0 THEN x.m \o Zeros(x.e)
    ELSE IF Len(x.m) + x.e <= 0 THEN <<>>
    ELSE SubSeq(x.m, 1, Len(x.m) + x.e)

\* the bits of |x| after the binary point
FracPart(x) ==
    IF x.m = <<>> \/ x.e >= 0 THEN <<>>
    ELSE IF Len(x.m) + x.e <= 0 THEN Zeros(-(Len(x.m) + x.e)) \o x.m
    ELSE SubSeq(x.m, Len(x.m) + x.e + 1, Len(x.m))

\* int(x): truncation toward zero
Trunc(x) ==
    LET n == BitsNat(IntPart(x))
    IN  IF x.neg THEN -n ELSE n

\* round(x): to the nearest integer, ties to even
PyRound(x) ==
    LET n == BitsNat(IntPart(x))
        f == FracPart(x)
        half == f # <<>> /\ f[1] = 1
        sticky == \E i \in 2..Len(f) : f[i] = 1
        r == IF half /\ (sticky \/ n % 2 = 1) THEN n + 1 ELSE n
    IN  IF x.neg THEN -r ELSE r


(***************************************************************************)
(* Python's built-in exception hierarchy, as far as the converters raise   *)
(* into it.  "None" stands for a call that returned normally.              *)
(***************************************************************************)
ExceptionBase ==
    [StopIteration |-> "Exception", ZeroDivisionError |-> "ArithmeticError",
     ArithmeticError |-> "Exception", KeyError |-> "LookupError",
     IndexError |-> "LookupError", LookupError |-> "Exception",
     Exception |-> "BaseException"]

RECURSIVE IsInstance(_, _)
\* isinstance(exc, cls) for an exception class name exc
IsInstance(exc, cls) ==
    \/ exc = cls
    \/ exc \in DOMAIN ExceptionBase /\ IsInstance(ExceptionBase[exc], cls)

\* The outcome of a call: the payload as the call left it, and the exception
\* that reached the caller.
Ok(p) == [payload |-> p, raised |-> "None"]
Raise(p, exc) == [payload |-> p, raised |-> exc]

(***************************************************************************)
(* Converter (base.py:9-32)                                                *)
(***************************************************************************)
RECURSIVE Join(_)
\* the string a sequence of characters spells
Join(chars) == IF chars = <<>> THEN "" ELSE chars[1] \o Join(Tail(chars))

\* the attribute name; attr is kept as its sequence of characters so that
\* EventConv's `'.' in attr` and `attr.split('.', 1)` are computed
Attr(conv) == Join(conv.attr)

\* `self.prop or self.attr`
PropOrAttr(conv) == IF Truthy(conv.prop) THEN conv.prop[2] ELSE Attr(conv)

Converter_decode(conv, p, value) == Ok(Store(p, Attr(conv), value))

Converter_encode(conv, p, value) == Ok(Store(p, PropOrAttr(conv), value))

(***************************************************************************)
(* MapConv (base.py:43-52).  A map is the sequence of its (key, value)     *)
(* items in insertion order.                                               *)
(***************************************************************************)
Least(S) == CHOOSE i \in S : \A j \in S : i <= j

\* map.get(value)
MapGet(map, value) ==
    LET at == {i \in 1..Len(map) : map[i][1] = value}
    IN  IF at = {} THEN NoneV ELSE map[Least(at)][2]

MapConv_decode(conv, p, value) == Ok(Store(p, Attr(conv), MapGet(conv.map, value)))

\* next(k for k, v in self.map.items() if v == value): the exhausted
\* generator ends next() with StopIteration.
MapConv_encode(conv, p, value) ==
    LET at == {i \in 1..Len(conv.map) : conv.map[i][2] = value}
    IN  IF at = {} THEN Raise(p, "StopIteration")
        ELSE Converter_encode(conv, p, conv.map[Least(at)][1])

(***************************************************************************)
(* DurationConv (base.py:55-68)                                            *)
(***************************************************************************)
\* faulty variant: rounds to the nearest second
DurationConv_decode_rounded(conv, p, value) ==
    IF conv.readable /\ value # NoneV
    THEN Ok(Store(p, Attr(conv), IntV(PyRound(DivInt(value[2], 1000)))))
    ELSE Ok(p)

DurationConv_decode(conv, p, value) ==
    IF conv.readable /\ value # NoneV
    THEN Ok(Store(p, Attr(conv), IntV(Trunc(DivInt(value[2], 1000)))))
    ELSE Ok(p)

DurationConv_encode(conv, p, value) ==
    IF value # NoneV
    THEN Converter_encode(conv, p, IntV(Trunc(MulInt(FromInt(value[2]), 1000))))
    ELSE Ok(p)

(***************************************************************************)
(* BrightnessConv (base.py:83-92)                                          *)
(***************************************************************************)
BrightnessConv_decode(conv, p, value) ==
    IF conv.max = 0 THEN Raise(p, "ZeroDivisionError")
    ELSE Ok(Store(p, Attr(conv), IntV(PyRound(MulInt(DivInt(value[2], conv.max), 255)))))

\* faulty variant: decode's scaling repeated in encode
BrightnessConv_encode_as_decode(conv, p, value) ==
    Converter_encode(conv, p, IntV(PyRound(MulInt(DivInt(value[2], conv.max), 255))))

BrightnessConv_encode(conv, p, value) ==
    Converter_encode(conv, p, IntV(PyRound(MulInt(DivInt(value[2], 255), conv.max))))

(***************************************************************************)
(* ColorTempKelvin (base.py:95-112)                                        *)
(***************************************************************************)
\* faulty variant: the raw Kelvin is stored before the division is tried
ColorTempKelvin_decode_kelvin_first(conv, p, value) ==
    LET p1 == Store(p, "color_temp_kelvin", value)
    IN  IF value[2] = 0 THEN Raise(p1, "ZeroDivisionError")
        ELSE Ok(Store(p1, Attr(conv), IntV(Trunc(DivInt(1000000, value[2])))))

ColorTempKelvin_decode(conv, p, value) ==
    IF value[2] = 0 THEN Raise(p, "ZeroDivisionError")
    ELSE LET p1 == Store(p, Attr(conv), IntV(Trunc(DivInt(1000000, value[2]))))
         IN  Ok(Store(p1, "color_temp_kelvin", value))

\* faulty variant: the argument is clamped before it is converted
ColorTempKelvin_encode_clamp_first(conv, p, value) ==
    IF value[2] = 0 THEN Raise(p, "ZeroDivisionError")
    ELSE LET v1 == IF value[2] < conv.mink THEN conv.mink ELSE value[2]
             v2 == IF v1 > conv.maxk THEN conv.maxk ELSE v1
         IN  Converter_encode(conv, p, IntV(Trunc(DivInt(1000000, v2))))

ColorTempKelvin_encode(conv, p, value) ==
    IF value[2] = 0 THEN Raise(p, "ZeroDivisionError")
    ELSE LET v0 == Trunc(DivInt(1000000, value[2]))
             v1 == IF v0 < conv.mink THEN conv.mink ELSE v0
             v2 == IF v1 > conv.maxk THEN conv.maxk ELSE v1
         IN  Converter_encode(conv, p, IntV(v2))

(***************************************************************************)
(* ColorRgbConv (base.py:115-124).  Python's integer operators on          *)
(* non-negative operands.                                                  *)
(***************************************************************************)
ChannelMask == 255

Shl(x, n) == x * 2^n

Shr(x, n) == x \div 2^n

RECURSIVE BitAnd(_, _)
BitAnd(x, y) ==
    IF x = 0 \/ y = 0 THEN 0
    ELSE (x % 2) * (y % 2) + 2 * BitAnd(x \div 2, y \div 2)

RECURSIVE BitOr(_, _)
BitOr(x, y) ==
    IF x = 0 THEN y
    ELSE IF y = 0 THEN x
    ELSE (IF x % 2 = 1 \/ y % 2 = 1 THEN 1 ELSE 0) + 2 * BitOr(x \div 2, y \div 2)

\* faulty variant: green is masked without being shifted down
ColorRgbConv_decode_green_unshifted(conv, p, value) ==
    LET red == BitAnd(Shr(value[2], 16), ChannelMask)
        green == BitAnd(value[2], ChannelMask)
        blue == BitAnd(value[2], ChannelMask)
    IN  Ok(Store(p, Attr(conv), TupleV(red, green, blue)))

ColorRgbConv_decode(conv, p, value) ==
    LET red == BitAnd(Shr(value[2], 16), ChannelMask)
        green == BitAnd(Shr(value[2], 8), ChannelMask)
        blue == BitAnd(value[2], ChannelMask)
    IN  Ok(Store(p, Attr(conv), TupleV(red, green, blue)))

ColorRgbConv_encode(conv, p, value) ==
    Converter_encode(conv, p,
        IntV(BitOr(BitOr(Shl(value[2], 16), Shl(value[3], 8)), value[4])))

(***************************************************************************)
(* EventConv (base.py:127-167).  value is the vendor event, a dict.        *)
(***************************************************************************)
\* faulty variant: two names exchanged
CountNames_exchanged == <<"single", "triple", "double">>

\* the literal {1: 'single', 2: 'double', 3: 'triple'}
CountNames == <<"single", "double", "triple">>

\* the list the knob.spin branch iterates
SpinTypes == <<"free_spin", "hold_spin">>

RECURSIVE SpinLoop(_, _, _, _)
\* the for loop of the knob.spin branch, from SpinTypes[i] on
SpinLoop(attr, p, value, i) ==
    IF i > Len(SpinTypes) THEN p
    ELSE IF Get(value, SpinTypes[i], NoneV) \in {NoneV, IntV(0)}
    THEN SpinLoop(attr, p, value, i + 1)
    ELSE SpinLoop(attr,
                  Update(p, Update([action |-> StrV(SpinTypes[i]), event |-> StrV(attr)],
                                   value)),
                  value, i + 1)

EventConv_decode(conv, p, event) ==
    LET attr == Attr(conv)
        value == event[2]
        dots == {i \in 1..Len(conv.attr) : conv.attr[i] = "."}
        key == IF dots = {} THEN attr
               ELSE Join(SubSeq(conv.attr, 1, Least(dots) - 1))
        val == IF dots = {} THEN NoneV
               ELSE StrV(Join(SubSeq(conv.attr, Least(dots) + 1, Len(conv.attr))))
    IN  IF key \in {"motion", "contact"}
        THEN Ok(Update(p, Update((key :> BoolV(val \in {StrV("true"), StrV("open")})),
                                 value)))
        ELSE IF attr \in {"panel.click", "panel.hold", "panel.release", "keyClick"}
        THEN LET k == Get(value, "key", StrV(""))
                 cnt == Get(value, "count", NoneV)
                 btn == "button" \o k[2]
                 typ == IF cnt # NoneV
                        THEN IF cnt[2] \in 1..Len(CountNames)
                             THEN StrV(CountNames[cnt[2]]) ELSE val
                        ELSE val
                 btn2 == IF Truthy(typ) THEN btn \o "_" \o typ[2] ELSE btn
             IN  Ok(Update(p, Update([action |-> StrV(btn2), event |-> StrV(attr),
                                      button |-> k], value)))
        ELSE IF attr \in {"knob.spin"}
        THEN Ok(SpinLoop(attr, p, value, 1))
        ELSE Ok(p)

(***************************************************************************)
(* IntNormalizationConv (base.py:194-212)                                  *)
(***************************************************************************)
Max2(a, b) == IF a >= b THEN a ELSE b

Min2(a, b) == IF a <= b THEN a ELSE b

\* _normalize: the value returned, or the exception the division raises
Normalize(value, from_range, to_range) ==
    LET v1 == Min2(Max2(from_range[1], from_range[2]), value)
        v2 == Max2(Min2(from_range[1], from_range[2]), v1)
    IN  IF from_range[2] - from_range[1] = 0
        THEN [raised |-> "ZeroDivisionError", ret |-> 0]
        ELSE [raised |-> "None",
              ret |-> Trunc(AddInt(MulInt(DivInt(v2 - from_range[1],
                                                 from_range[2] - from_range[1]),
                                          to_range[2] - to_range[1]),
                                   to_range[1]))]

IntNormalizationConv_decode(conv, p, value) ==
    LET r == Normalize(value[2], conv.prop_range, conv.attr_range)
    IN  IF r.raised # "None" THEN Raise(p, r.raised)
        ELSE Converter_decode(conv, p, IntV(r.ret))

IntNormalizationConv_encode(conv, p, value) ==
    LET r == Normalize(value[2], conv.attr_range, conv.prop_range)
    IN  IF r.raised # "None" THEN Raise(p, r.raised)
        ELSE Converter_encode(conv, p, IntV(r.ret))

(***************************************************************************)
(* The converters' callers.  The entity layer owns the payload and hands   *)
(* it, with a value, to one converter method at a time.  The bounded       *)
(* inputs below are what it may hand over.                                 *)
(***************************************************************************)
MaxHalfSeconds == 12
MaxSeconds == 10
MaxKiloKelvin == 10
MaxCount == 4
MaxSpin == 2

\* the dataclass defaults (base.py:11-18, 45, 57-60, 85, 98-99, 196-197)
BaseConv(kind) ==
    [kind |-> kind, attr |-> <<"a">>, prop |-> NoneV, map |-> <<>>, readable |-> TRUE,
     max |-> 100, mink |-> 2700, maxk |-> 6500,
     attr_range |-> <<0, 100>>, prop_range |-> <<0, 100>>]

Props == {NoneV, StrV("p")}

\* a fresh payload, and one that already holds keys from earlier calls
PayloadInputs ==
    {EmptyDict,
     [a |-> IntV(-1), p |-> IntV(-1), other |-> StrV("x"), action |-> StrV("old"),
      color_temp_kelvin |-> IntV(-1)]}

Maps ==
    {<<>>,
     <<<<IntV(1), StrV("low")>>, <<IntV(2), StrV("high")>>>>,
     <<<<IntV(1), StrV("on")>>, <<IntV(2), StrV("off")>>, <<IntV(3), StrV("on")>>>>}

MapConvs == {[BaseConv("MapConv") EXCEPT !.prop = pr, !.map = m] : pr \in Props, m \in Maps}

MapVendorInputs == {IntV(1), IntV(2), IntV(3), IntV(9)}

MapPlatformInputs == {StrV("low"), StrV("high"), StrV("on"), StrV("off"), StrV("unknown")}

DurationConvs ==
    {[BaseConv("DurationConv") EXCEPT !.prop = pr, !.readable = rd] :
        pr \in Props, rd \in BOOLEAN}

\* durations are not negative (min = 0, base.py:57)
MillisInputs ==
    {NoneV} \cup {IntV(n) : n \in {1, 999, 1001, 1999, 5000}}
            \cup {IntV(500 * k) : k \in 0..MaxHalfSeconds}

SecondsInputs == {NoneV} \cup {IntV(n) : n \in 0..MaxSeconds}

BrightnessConvs == {[BaseConv("BrightnessConv") EXCEPT !.prop = pr] : pr \in Props}

\* hass brightness
PlatformBrightness == 0..255

ColorTempKelvins ==
    {[BaseConv("ColorTempKelvin") EXCEPT !.prop = pr, !.mink = b[1], !.maxk = b[2]] :
        pr \in Props, b \in {<<2700, 6500>>, <<153, 370>>}}

KelvinInputs ==
    {IntV(n) : n \in {0, 1, 100, 153, 154, 200, 370, 371, 2699, 2700, 2701,
                      6499, 6500, 6501, 1000000, 1000001}}
        \cup {IntV(1000 * k) : k \in 1..MaxKiloKelvin}

ColorRgbConvs == {[BaseConv("ColorRgbConv") EXCEPT !.prop = pr] : pr \in Props}

Channels == 0..ChannelMask

\* one channel over its whole range, the other two at their ends
RgbInputs ==
    {TupleV(r, g, b) : r \in Channels, g \in {0, ChannelMask}, b \in {0, ChannelMask}}
        \cup {TupleV(r, g, b) : r \in {0, ChannelMask}, g \in Channels, b \in {0, ChannelMask}}
        \cup {TupleV(r, g, b) : r \in {0, ChannelMask}, g \in {0, ChannelMask}, b \in Channels}

RgbIntInputs == {IntV(n) : n \in {0, 255, 65280, 16711808, 16777215, 16777216}}

Chars(kind) ==
    CASE kind = "panel.click" -> <<"p", "a", "n", "e", "l", ".", "c", "l", "i", "c", "k">>
      [] kind = "panel.hold" -> <<"p", "a", "n", "e", "l", ".", "h", "o", "l", "d">>
      [] kind = "panel.release" ->
            <<"p", "a", "n", "e", "l", ".", "r", "e", "l", "e", "a", "s", "e">>
      [] kind = "keyClick" -> <<"k", "e", "y", "C", "l", "i", "c", "k">>
      [] kind = "knob.spin" -> <<"k", "n", "o", "b", ".", "s", "p", "i", "n">>
      [] kind = "motion.true" -> <<"m", "o", "t", "i", "o", "n", ".", "t", "r", "u", "e">>
      [] kind = "motion.false" ->
            <<"m", "o", "t", "i", "o", "n", ".", "f", "a", "l", "s", "e">>
      [] kind = "contact.open" ->
            <<"c", "o", "n", "t", "a", "c", "t", ".", "o", "p", "e", "n">>
      [] kind = "motion" -> <<"m", "o", "t", "i", "o", "n">>
      [] kind = "scene" -> <<"s", "c", "e", "n", "e">>

EventAttrs ==
    {"panel.click", "panel.hold", "panel.release", "keyClick", "knob.spin",
     "motion.true", "motion.false", "contact.open", "motion", "scene"}

EventConvs == {[BaseConv("EventConv") EXCEPT !.attr = Chars(a)] : a \in EventAttrs}

\* a key that may be missing from a vendor event
Opt(k, vals) == {EmptyDict} \cup {(k :> v) : v \in vals}

ButtonEvents ==
    {DictV(Update(Update(k, c), x)) :
        k \in Opt("key", {StrV("1"), StrV("2")}),
        c \in Opt("count", {NoneV} \cup {IntV(n) : n \in 1..MaxCount}),
        x \in Opt("extra", {IntV(9)})}

KnobEvents ==
    {DictV(Update(Update(Update(f, h), n1), n4)) :
        f \in Opt("free_spin", {NoneV} \cup {IntV(n) : n \in 0..MaxSpin}),
        h \in Opt("hold_spin", {NoneV} \cup {IntV(-n) : n \in 0..MaxSpin}),
        n1 \in Opt("1-free_spin", {IntV(2)}),
        n4 \in Opt("4-free_spin", {IntV(0), IntV(5)})}

VendorEvents == ButtonEvents \cup KnobEvents

IntNormalizationConvs ==
    {[BaseConv("IntNormalizationConv") EXCEPT !.prop = StrV("p"),
                                              !.attr_range = r[1], !.prop_range = r[2]] :
        r \in {<<<<0, 100>>, <<0, 100>>>>, <<<<0, 255>>, <<0, 100>>>>,
               <<<<100, 0>>, <<0, 100>>>>, <<<<-10, 10>>, <<0, 100>>>>,
               <<<<0, 100>>, <<5, 5>>>>, <<<<5, 5>>, <<0, 100>>>>}}

NormInputs == {IntV(n) : n \in (-2..101) \cup {127, 128, 254, 255, 256}}

(***************************************************************************)
(* State.  call: the converter call in hand (converter, method, argument,  *)
(* and for a call that feeds back the previous call's result, that call's  *)
(* argument); pc: "ready" before the method runs, "done" after; pre: the   *)
(* payload handed in; payload: the payload as it is now; raised: the       *)
(* exception that reached the caller.                                      *)
(***************************************************************************)
VARIABLES call, pc, pre, payload, raised,
          pid, base_features, sent

vars == <<call, pc, pre, payload, raised, pid, base_features, sent>>

convVars == <<call, pc, pre, payload, raised>>

coverVars == <<pid, base_features, sent>>

NewCall(conv, op, value, origin) ==
    [conv |-> conv, op |-> op, value |-> value, origin |-> origin]

\* every call the entity layer may make with an argument of its own
Calls ==
    {NewCall(c, "decode", v, NoneV) : c \in MapConvs, v \in MapVendorInputs}
        \cup {NewCall(c, "encode", v, NoneV) : c \in MapConvs, v \in MapPlatformInputs}
        \cup {NewCall(c, "decode", v, NoneV) : c \in DurationConvs, v \in MillisInputs}
        \cup {NewCall(c, "encode", v, NoneV) : c \in DurationConvs, v \in SecondsInputs}
        \cup UNION {{NewCall(c, "decode", IntV(v), NoneV) : v \in 0..c.max} :
                        c \in BrightnessConvs}
        \cup {NewCall(c, "encode", IntV(v), NoneV) :
                c \in BrightnessConvs, v \in PlatformBrightness}
        \cup {NewCall(c, op, v, NoneV) :
                c \in ColorTempKelvins, op \in {"decode", "encode"}, v \in KelvinInputs}
        \cup {NewCall(c, "encode", v, NoneV) : c \in ColorRgbConvs, v \in RgbInputs}
        \cup {NewCall(c, "decode", v, NoneV) : c \in ColorRgbConvs, v \in RgbIntInputs}
        \cup {NewCall(c, "decode", v, NoneV) : c \in EventConvs, v \in VendorEvents}
        \cup {NewCall(c, op, v, NoneV) :
                c \in IntNormalizationConvs, op \in {"decode", "encode"}, v \in NormInputs}

ConvInit ==
    /\ call \in Calls
    /\ pc = "ready"
    /\ payload \in PayloadInputs
    /\ pre = payload
    /\ raised = "None"

\* the call in hand is `op` of a `kind` converter and has not run yet
Ready(kind, op) == pc = "ready" /\ call.conv.kind = kind /\ call.op = op

\* the call in hand was `op` of a `kind` converter and returned
Returned(kind, op) ==
    pc = "done" /\ call.conv.kind = kind /\ call.op = op /\ raised = "None"

\* the method ran on the payload in hand with outcome r
Finish(r) ==
    /\ pc' = "done"
    /\ payload' = r.payload
    /\ raised' = r.raised
    /\ UNCHANGED <<call, pre>>
    /\ UNCHANGED coverVars

\* a further call made and run on payload p with outcome r
Invoke(c, p, r) ==
    /\ call' = c
    /\ pc' = "done"
    /\ pre' = p
    /\ payload' = r.payload
    /\ raised' = r.raised
    /\ UNCHANGED coverVars

MapConvDecode ==
    /\ Ready("MapConv", "decode")
    /\ Finish(MapConv_decode(call.conv, payload, call.value))

MapConvEncode ==
    /\ Ready("MapConv", "encode")
    /\ Finish(MapConv_encode(call.conv, payload, call.value))

DurationConvDecode ==
    /\ Ready("DurationConv", "decode")
    /\ Finish(DurationConv_decode(call.conv, payload, call.value))

DurationConvEncode ==
    /\ Ready("DurationConv", "encode")
    /\ Finish(DurationConv_encode(call.conv, payload, call.value))

BrightnessConvDecode ==
    /\ Ready("BrightnessConv", "decode")
    /\ Finish(BrightnessConv_decode(call.conv, payload, call.value))

BrightnessConvEncode ==
    /\ Ready("BrightnessConv", "encode")
    /\ Finish(BrightnessConv_encode(call.conv, payload, call.value))

\* the brightness just decoded is sent back to the device
BrightnessConvEncodeDecoded ==
    /\ Returned("BrightnessConv", "decode")
    /\ \E p \in PayloadInputs :
        LET v == payload[Attr(call.conv)]
        IN  Invoke(NewCall(call.conv, "encode", v, call.value), p,
                   BrightnessConv_encode(call.conv, p, v))

ColorTempKelvinDecode ==
    /\ Ready("ColorTempKelvin", "decode")
    /\ Finish(ColorTempKelvin_decode(call.conv, payload, call.value))

ColorTempKelvinEncode ==
    /\ Ready("ColorTempKelvin", "encode")
    /\ Finish(ColorTempKelvin_encode(call.conv, payload, call.value))

ColorRgbConvEncode ==
    /\ Ready("ColorRgbConv", "encode")
    /\ Finish(ColorRgbConv_encode(call.conv, payload, call.value))

ColorRgbConvDecode ==
    /\ Ready("ColorRgbConv", "decode")
    /\ Finish(ColorRgbConv_decode(call.conv, payload, call.value))

\* the colour just encoded is reported back by the device
ColorRgbConvDecodeEncoded ==
    /\ Returned("ColorRgbConv", "encode")
    /\ \E p \in PayloadInputs :
        LET v == payload[PropOrAttr(call.conv)]
        IN  Invoke(NewCall(call.conv, "decode", v, call.value), p,
                   ColorRgbConv_decode(call.conv, p, v))

EventConvDecode ==
    /\ Ready("EventConv", "decode")
    /\ Finish(EventConv_decode(call.conv, payload, call.value))

IntNormalizationConvDecode ==
    /\ Ready("IntNormalizationConv", "decode")
    /\ Finish(IntNormalizationConv_decode(call.conv, payload, call.value))

IntNormalizationConvEncode ==
    /\ Ready("IntNormalizationConv", "encode")
    /\ Finish(IntNormalizationConv_encode(call.conv, payload, call.value))

ConvNext ==
    \/ MapConvDecode
    \/ MapConvEncode
    \/ DurationConvDecode
    \/ DurationConvEncode
    \/ BrightnessConvDecode
    \/ BrightnessConvEncode
    \/ BrightnessConvEncodeDecoded
    \/ ColorTempKelvinDecode
    \/ ColorTempKelvinEncode
    \/ ColorRgbConvEncode
    \/ ColorRgbConvDecode
    \/ ColorRgbConvDecodeEncoded
    \/ EventConvDecode
    \/ IntNormalizationConvDecode
    \/ IntNormalizationConvEncode

\* the cover entity is not part of Spec
CoverIdle == pid = NoneV /\ base_features = {} /\ sent = <<>>

Init == ConvInit /\ CoverIdle

Next == ConvNext

Spec == Init /\ [][Next]_vars

(***************************************************************************)
(* XCoverEntity (cover.py:46-120).  pid: the device's product id;          *)
(* base_features: what the platform's CoverEntity.supported_features       *)
(* (outside this repository) reports; sent: the payloads handed to         *)
(* device_send_props, oldest first.                                        *)
(***************************************************************************)
MaxSent == 2

TiltPid == 1443840

ATTR_POSITION == "position"

ATTR_TILT_POSITION == "tilt_position"

\* self._name, the converter attribute the entity is bound to
EntityName == "motor"

PidInputs == {IntV(TiltPid), StrV("1443840"), IntV(TiltPid + 1)}

BaseFeatureInputs ==
    {{"OPEN", "CLOSE", "STOP"},
     {"OPEN", "CLOSE", "STOP", "SET_POSITION"},
     {"OPEN", "CLOSE", "STOP", "SET_POSITION",
      "OPEN_TILT", "CLOSE_TILT", "STOP_TILT", "SET_TILT_POSITION"}}

PositionInputs == {0, 1, 50, 100}

TiltInputs == {0, 1, 99, 100}

supported_features ==
    IF pid = IntV(TiltPid) \/ pid = StrV("1443840")
    THEN {"OPEN", "CLOSE", "SET_POSITION", "OPEN_TILT", "CLOSE_TILT", "SET_TILT_POSITION"}
    ELSE base_features

\* the log of sent payloads is kept to MaxSent entries
CanSend == Len(sent) < MaxSent

device_send_props(props) ==
    /\ sent' = Append(sent, props)
    /\ UNCHANGED <<pid, base_features>>
    /\ UNCHANGED convVars

\* what async_set_cover_position hands to device_send_props
set_cover_position_props(kwargs) ==
    IF ATTR_POSITION \in DOMAIN kwargs /\ "SET_TILT_POSITION" \in supported_features
    THEN IF kwargs[ATTR_POSITION][2] > 0
         THEN Store(kwargs, ATTR_TILT_POSITION, IntV(100))
         ELSE Store(Store(kwargs, ATTR_POSITION, IntV(0)), ATTR_TILT_POSITION, IntV(0))
    ELSE kwargs

\* faulty variant: the tilt command leaves the position alone
set_cover_tilt_position_props_as_given(kwargs) == kwargs

\* what async_set_cover_tilt_position hands to device_send_props
set_cover_tilt_position_props(kwargs) ==
    IF ATTR_TILT_POSITION \in DOMAIN kwargs /\ kwargs[ATTR_TILT_POSITION] # IntV(100)
    THEN Store(kwargs, ATTR_POSITION, IntV(0))
    ELSE kwargs

async_open_cover ==
    /\ CanSend
    /\ device_send_props(set_cover_position_props(Store(EmptyDict, ATTR_POSITION, IntV(100))))

async_close_cover ==
    LET k1 == Store(EmptyDict, ATTR_POSITION, IntV(0))
        k2 == IF "SET_TILT_POSITION" \in supported_features
              THEN Store(k1, ATTR_TILT_POSITION, IntV(0)) ELSE k1
    IN  /\ CanSend
        /\ device_send_props(set_cover_position_props(k2))

async_stop_cover ==
    /\ CanSend
    /\ device_send_props((EntityName :> StrV("pause")))

async_set_cover_position ==
    /\ CanSend
    /\ \E kwargs \in {EmptyDict} \cup {(ATTR_POSITION :> IntV(n)) : n \in PositionInputs} :
        device_send_props(set_cover_position_props(kwargs))

async_open_cover_tilt ==
    /\ CanSend
    /\ device_send_props(
        set_cover_tilt_position_props(Store(EmptyDict, ATTR_TILT_POSITION, IntV(100))))

async_close_cover_tilt ==
    /\ CanSend
    /\ device_send_props(
        set_cover_tilt_position_props(Store(EmptyDict, ATTR_TILT_POSITION, IntV(0))))

async_set_cover_tilt_position ==
    /\ CanSend
    /\ \E kwargs \in {EmptyDict} \cup {(ATTR_TILT_POSITION :> IntV(n)) : n \in TiltInputs} :
        device_send_props(set_cover_tilt_position_props(kwargs))

\* no converter call is part of CoverSpec
ConvIdle ==
    /\ call = NewCall(BaseConv("Converter"), "none", NoneV, NoneV)
    /\ pc = "idle"
    /\ pre = EmptyDict
    /\ payload = EmptyDict
    /\ raised = "None"

CoverInit ==
    /\ ConvIdle
    /\ pid \in PidInputs
    /\ base_features \in BaseFeatureInputs
    /\ sent = <<>>

CoverNext ==
    \/ async_open_cover
    \/ async_close_cover
    \/ async_stop_cover
    \/ async_set_cover_position
    \/ async_open_cover_tilt
    \/ async_close_cover_tilt
    \/ async_set_cover_tilt_position

CoverSpec == CoverInit /\ [][CoverNext]_vars

(***************************************************************************)
(* Properties                                                              *)
(***************************************************************************)
\* the call in hand was `op` of a `kind` converter and has run
Done(kind, op) == pc = "done" /\ call.conv.kind = kind /\ call.op = op

\* n / d truncated toward zero, in exact integer arithmetic (d # 0)
TruncQuot(n, d) ==
    IF (n < 0) = (d < 0) THEN Abs(n) \div Abs(d) ELSE -(Abs(n) \div Abs(d))

\* n / d rounded to the nearest integer, ties to even (n >= 0, d > 0)
RoundQuot(n, d) ==
    LET q == n \div d
        r == n % d
    IN  IF 2 * r > d \/ (2 * r = d /\ q % 2 = 1) THEN q + 1 ELSE q

DefaultKelvinBounds == call.conv.mink = 2700 /\ call.conv.maxk = 6500

\* C1 as stated: with mink=2700 and maxk=6500, ColorTempKelvin.encode of a
\* value above 6500 stores exactly maxk under `prop or attr`.
C1_EncodeAboveMaxStoresMaxk ==
    (Done("ColorTempKelvin", "encode") /\ DefaultKelvinBounds /\ call.value[2] > 6500)
        => /\ raised = "None"
           /\ payload = Store(pre, PropOrAttr(call.conv), IntV(call.conv.maxk))

\* C1 as amended: with mink=2700 and maxk=6500, ColorTempKelvin.encode of a
\* value above 6500 stores exactly mink (2700) under `prop or attr`: the
\* reciprocal 1000000/value is below mink, and the clamp raises it to mink.
C1_EncodeAboveMaxStoresMink ==
    (Done("ColorTempKelvin", "encode") /\ DefaultKelvinBounds /\ call.value[2] > 6500)
        => /\ raised = "None"
           /\ payload = Store(pre, PropOrAttr(call.conv), IntV(call.conv.mink))

C1_Witness ==
    /\ Done("ColorTempKelvin", "encode")
    /\ DefaultKelvinBounds
    /\ call.value = IntV(10000)
    /\ call.conv.prop = StrV("p")
    /\ "p" \in DOMAIN payload
    /\ payload["p"] = IntV(2700)

\* C2: MapConv.encode of a value that is not among the map's values fails with
\* a LookupError that reaches the caller and leaves every key of the payload
\* unchanged; of a value that is present, it stores under `prop or attr` the
\* first key in mapping order whose value equals it.
C2_MapEncode ==
    Done("MapConv", "encode") =>
        LET map == call.conv.map
            at == {i \in 1..Len(map) : map[i][2] = call.value}
        IN  IF at = {}
            THEN IsInstance(raised, "LookupError") /\ payload = pre
            ELSE /\ raised = "None"
                 /\ \E i \in at :
                       /\ \A j \in at : i <= j
                       /\ payload = Store(pre, PropOrAttr(call.conv), map[i][1])

\* the six spin keys the specification lists, in order
SpecSpinKeys ==
    <<"free_spin", "hold_spin", "1-free_spin", "2-free_spin", "3-free_spin", "4-free_spin">>

\* C3: for an EventConv with attr "knob.spin", whenever the vendor event holds
\* a non-null, non-zero value under one of free_spin, hold_spin, 1-free_spin,
\* 2-free_spin, 3-free_spin, 4-free_spin, decode merges the event into the
\* payload with event = "knob.spin" and action = the last such key in that
\* order.
C3_KnobSpin ==
    (Done("EventConv", "decode") /\ Attr(call.conv) = "knob.spin") =>
        LET ev == call.value[2]
            hit == {i \in 1..Len(SpecSpinKeys) :
                        /\ SpecSpinKeys[i] \in DOMAIN ev
                        /\ ev[SpecSpinKeys[i]] \notin {NoneV, IntV(0)}}
        IN  hit # {} =>
                \E i \in hit :
                    /\ \A j \in hit : j <= i
                    /\ payload = Update(pre, Update([action |-> StrV(SpecSpinKeys[i]),
                                                     event |-> StrV("knob.spin")], ev))

\* the suffix C4 gives the action: by count, or by the attr's subtype
C4_Suffix(attr, ev) ==
    IF "count" \in DOMAIN ev
    THEN CASE ev["count"] = IntV(1) -> "_single"
           [] ev["count"] = IntV(2) -> "_double"
           [] ev["count"] = IntV(3) -> "_triple"
    ELSE CASE attr = "panel.click" -> "_click"
           [] attr = "panel.hold" -> "_hold"
           [] attr = "panel.release" -> "_release"
           [] attr = "keyClick" -> ""

\* C4: for an EventConv whose attr is panel.click, panel.hold, panel.release
\* or keyClick, decode of a vendor event with a key, on an empty payload,
\* yields exactly action = "button" + key + suffix ("_single", "_double",
\* "_triple" for count 1, 2, 3; "_" + the attr's subtype when count is
\* absent, nothing when the attr has no subtype), event = attr, button = key,
\* and every key of the vendor event as it came.
C4_ButtonDecode ==
    LET attr == Attr(call.conv)
        ev == call.value[2]
    IN  (/\ Done("EventConv", "decode")
         /\ attr \in {"panel.click", "panel.hold", "panel.release", "keyClick"}
         /\ pre = EmptyDict
         /\ "key" \in DOMAIN ev
         /\ ("count" \in DOMAIN ev => ev["count"] \in {IntV(1), IntV(2), IntV(3)}))
        => /\ raised = "None"
           /\ payload = Update([action |-> StrV("button" \o ev["key"][2] \o C4_Suffix(attr, ev)),
                                event |-> StrV(attr),
                                button |-> ev["key"]], ev)

C4_Witness ==
    /\ Done("EventConv", "decode")
    /\ Attr(call.conv) = "panel.click"
    /\ call.value = DictV([key |-> StrV("1"), count |-> IntV(2)])
    /\ payload = [action |-> StrV("button1_double"), event |-> StrV("panel.click"),
                  button |-> StrV("1"), key |-> StrV("1"), count |-> IntV(2)]

\* C5: IntNormalizationConv maps every integer by clamping it into
\* [min(from), max(from)] and computing
\* to.lo + (value - from.lo) / (from.hi - from.lo) * (to.hi - to.lo),
\* truncated toward zero; decode goes from prop_range to attr_range and stores
\* under attr, encode from attr_range to prop_range and stores under
\* `prop or attr`.
C5_Normalize ==
    LET decoding == call.op = "decode"
        from == IF decoding THEN call.conv.prop_range ELSE call.conv.attr_range
        to == IF decoding THEN call.conv.attr_range ELSE call.conv.prop_range
        key == IF decoding THEN Attr(call.conv) ELSE PropOrAttr(call.conv)
        lo == Min2(from[1], from[2])
        hi == Max2(from[1], from[2])
        v == Max2(lo, Min2(hi, call.value[2]))
        den == from[2] - from[1]
        num == to[1] * den + (v - from[1]) * (to[2] - to[1])
    IN  (pc = "done" /\ call.conv.kind = "IntNormalizationConv" /\ den # 0)
        => /\ raised = "None"
           /\ payload = Store(pre, key, IntV(TruncQuot(num, den)))

\* C6: DurationConv.decode stores floor(value / 1000) under attr when readable
\* is true and value is present, and leaves the payload unchanged otherwise;
\* DurationConv.encode stores value * 1000 under `prop or attr` when value is
\* present and leaves the payload unchanged when it is None.
C6_Duration ==
    /\ Done("DurationConv", "decode") =>
          /\ raised = "None"
          /\ payload = IF call.conv.readable /\ call.value # NoneV
                       THEN Store(pre, Attr(call.conv), IntV(call.value[2] \div 1000))
                       ELSE pre
    /\ Done("DurationConv", "encode") =>
          /\ raised = "None"
          /\ payload = IF call.value # NoneV
                       THEN Store(pre, PropOrAttr(call.conv), IntV(call.value[2] * 1000))
                       ELSE pre

C6_Witness ==
    /\ Done("DurationConv", "decode")
    /\ call.conv.readable
    /\ call.value = IntV(5000)
    /\ payload = Store(pre, "a", IntV(5))
    /\ pre # EmptyDict

\* C7: ColorRgbConv.encode of (r, g, b), each channel in 0..255, stores
\* r<<16 | g<<8 | b (= 65536 r + 256 g + b), and decode of that stored integer
\* yields exactly (r, g, b).
C7_RgbRoundTrip ==
    /\ Done("ColorRgbConv", "encode") =>
          /\ raised = "None"
          /\ payload = Store(pre, PropOrAttr(call.conv),
                             IntV(65536 * call.value[2] + 256 * call.value[3] + call.value[4]))
    /\ (Done("ColorRgbConv", "decode") /\ call.origin # NoneV) =>
          /\ raised = "None"
          /\ call.value = IntV(65536 * call.origin[2] + 256 * call.origin[3] + call.origin[4])
          /\ payload = Store(pre, Attr(call.conv), call.origin)

C7_Witness ==
    /\ Done("ColorRgbConv", "decode")
    /\ call.origin = TupleV(255, 0, 128)
    /\ call.value = IntV(16711808)
    /\ payload = Store(pre, "a", TupleV(255, 0, 128))

\* C8: for BrightnessConv with max=100 and every vendor brightness v in
\* 0..100, decode gives the platform value round(v / 100 * 255), and encoding
\* that platform value gives a vendor value w with |w - v| <= 1.
C8_BrightnessRoundTrip ==
    /\ (Done("BrightnessConv", "decode") /\ call.conv.max = 100) =>
          payload = Store(pre, Attr(call.conv), IntV(RoundQuot(call.value[2] * 255, 100)))
    /\ (Done("BrightnessConv", "encode") /\ call.conv.max = 100 /\ call.origin # NoneV) =>
          /\ raised = "None"
          /\ call.value = IntV(RoundQuot(call.origin[2] * 255, 100))
          /\ PropOrAttr(call.conv) \in DOMAIN payload
          /\ Abs(payload[PropOrAttr(call.conv)][2] - call.origin[2]) <= 1

C8_Witness ==
    /\ Done("BrightnessConv", "encode")
    /\ call.origin = IntV(50)
    /\ call.value = IntV(128)
    /\ payload = Store(pre, PropOrAttr(call.conv), IntV(50))

\* the call in hand divides by zero
C9_MathDomainCase ==
    \/ (call.conv.kind = "ColorTempKelvin" /\ call.value = IntV(0))
    \/ /\ Done("IntNormalizationConv", "decode")
       /\ call.conv.prop_range[1] = call.conv.prop_range[2]
    \/ /\ Done("IntNormalizationConv", "encode")
       /\ call.conv.attr_range[1] = call.conv.attr_range[2]

\* C9: ColorTempKelvin.encode and decode with value 0, and
\* IntNormalizationConv.decode/encode with a degenerate source range, end in
\* an arithmetic error that reaches the caller and leave every key of the
\* payload unchanged.
C9_MathDomainNotMasked ==
    (pc = "done" /\ C9_MathDomainCase)
        => IsInstance(raised, "ArithmeticError") /\ payload = pre

C9_Witness ==
    /\ Done("ColorTempKelvin", "decode")
    /\ call.value = IntV(0)
    /\ raised = "ZeroDivisionError"
    /\ pre # EmptyDict
    /\ payload = pre

\* C10: on a tilt-capable cover, every payload handed to device_send_props
\* that holds a tilt_position other than 100 also holds position = 0, and
\* every payload that holds a position above 0 together with a tilt_position
\* holds tilt_position = 100.
C10_TiltOnlyWhenClosed ==
    "SET_TILT_POSITION" \in supported_features =>
        \A i \in 1..Len(sent) :
            LET d == sent[i]
                tilted == ATTR_TILT_POSITION \in DOMAIN d
                placed == ATTR_POSITION \in DOMAIN d
            IN  /\ (tilted /\ d[ATTR_TILT_POSITION] # IntV(100))
                      => (placed /\ d[ATTR_POSITION] = IntV(0))
                /\ (placed /\ d[ATTR_POSITION][2] > 0 /\ tilted)
                      => d[ATTR_TILT_POSITION] = IntV(100)

C10_Witness ==
    /\ "SET_TILT_POSITION" \in supported_features
    /\ Len(sent) = 2
    /\ sent[1] = [position |-> IntV(50), tilt_position |-> IntV(100)]
    /\ sent[2] = [position |-> IntV(0), tilt_position |-> IntV(99)]
====
